---- MODULE Spec2Model ----
(***************************************************************************)
(* Transmit path of the GE induction cooktop controller firmware: the      *)
(* CRC-16 checksum, the escape classifier, the two frame encoders          *)
(* (initSingleGenerator, setPowerLevels), the initialization sequence      *)
(* (initCooktop, called from setup) and the control loop (loop).           *)
(*                                                                         *)
(* Three specifications share the variables:                               *)
(*   Spec      the firmware run: setup, initCooktop, then loop cycles;     *)
(*   SpecCall  one encoder call on arguments drawn from the whole uint8_t  *)
(*             range of the heartbeat and of the stale stack byte;         *)
(*   SpecApi   a bounded series of encoder calls on sampled arguments.     *)
(***************************************************************************)
EXTENDS Integers, Sequences, FiniteSets, TLC

(***************************************************************************)
(* Program constants                                                       *)
(***************************************************************************)
LOCAL_ADDR == 135
GEN1_ADDR == 136
GEN2_ADDR == 137
GEN3_ADDR == 138

GEA_ESC == 224
GEA_ACK == 225
GEA_SOF == 226
GEA_EOF == 227

CMD_SET_BOARD_CONFIG == 38
CMD_SET_PWR_LEVELS == 40

COIL_TYPE_NONE == 0
COIL_TYPE_1800_WATT == 1
COIL_TYPE_2500_WATT == 2
COIL_TYPE_3200_WATT == 3
COIL_TYPE_3700_WATT == 4

PERSONALITY_FOUR_COILS == 0
PERSONALITY_FIVE_COILS == 1

\* int minPowerSteps / maxPowerSteps: globals that no statement assigns
minPowerSteps == 0
maxPowerSteps == 19

\* the values of a uint8_t
Byte == 0 .. 255

\* crc16Table[]; entry i of the C array is crc16Table[i + 1] here
crc16Table ==
  <<
       0,  4129,  8258, 12387, 16516, 20645, 24774, 28903,
   33032, 37161, 41290, 45419, 49548, 53677, 57806, 61935,
    4657,   528, 12915,  8786, 21173, 17044, 29431, 25302,
   37689, 33560, 45947, 41818, 54205, 50076, 62463, 58334,
    9314, 13379,  1056,  5121, 25830, 29895, 17572, 21637,
   42346, 46411, 34088, 38153, 58862, 62927, 50604, 54669,
   13907,  9842,  5649,  1584, 30423, 26358, 22165, 18100,
   46939, 42874, 38681, 34616, 63455, 59390, 55197, 51132,
   18628, 22757, 26758, 30887,  2112,  6241, 10242, 14371,
   51660, 55789, 59790, 63919, 35144, 39273, 43274, 47403,
   23285, 19156, 31415, 27286,  6769,  2640, 14899, 10770,
   56317, 52188, 64447, 60318, 39801, 35672, 47931, 43802,
   27814, 31879, 19684, 23749, 11298, 15363,  3168,  7233,
   60846, 64911, 52716, 56781, 44330, 48395, 36200, 40265,
   32407, 28342, 24277, 20212, 15891, 11826,  7761,  3696,
   65439, 61374, 57309, 53244, 48923, 44858, 40793, 36728,
   37256, 33193, 45514, 41451, 53516, 49453, 61774, 57711,
    4224,   161, 12482,  8419, 20484, 16421, 28742, 24679,
   33721, 37784, 41979, 46042, 49981, 54044, 58239, 62302,
     689,  4752,  8947, 13010, 16949, 21012, 25207, 29270,
   46570, 42443, 38312, 34185, 62830, 58703, 54572, 50445,
   13538,  9411,  5280,  1153, 29798, 25671, 21540, 17413,
   42971, 47098, 34713, 38840, 59231, 63358, 50973, 55100,
    9939, 14066,  1681,  5808, 26199, 30326, 17941, 22068,
   55628, 51565, 63758, 59695, 39368, 35305, 47498, 43435,
   22596, 18533, 30726, 26663,  6336,  2273, 14466, 10403,
   52093, 56156, 60223, 64286, 35833, 39896, 43963, 48026,
   19061, 23124, 27191, 31254,  2801,  6864, 10931, 14994,
   64814, 60687, 56684, 52557, 48554, 44427, 40424, 36297,
   31782, 27655, 23652, 19525, 15522, 11395,  7392,  3265,
   61215, 65342, 53085, 57212, 44955, 49082, 36825, 40952,
   28183, 32310, 20053, 24180, 11923, 16050,  3793,  7920
  >>

(***************************************************************************)
(* Integer helpers for the C operators                                     *)
(***************************************************************************)
RECURSIVE BitXorBits(_, _)
\* a ^ b on non-negative integers, bit by bit from the lowest
BitXorBits(a, b) ==
  IF a = 0 THEN b
  ELSE IF b = 0 THEN a
  ELSE (((a % 2) + (b % 2)) % 2) + 2 * BitXorBits(a \div 2, b \div 2)

\* a ^ b: both operands are evaluated once, then combined
BitXor(a, b) == CHOOSE r \in {BitXorBits(x, y) : x \in {a}, y \in {b}} : TRUE

\* C integer division, which truncates toward zero
TruncDiv(a, b) == IF a >= 0 THEN a \div b ELSE -((-a) \div b)

\* conversion of an int argument to a uint8_t parameter
ToUint8(x) == x % 256

(***************************************************************************)
(* CalculateCrc16                                                          *)
(***************************************************************************)
Crc16Step_shift_by_four(crc16, b) ==
  BitXor(crc16 \div 16, crc16Table[(BitXor(crc16, b) % 256) + 1])

\* one iteration of the for loop: crc16 = (crc16 >> 8) ^ table[(crc16 ^ b) & 0xff]
\* (a signed char is sign-extended by the cast; the mask drops those bits)
Crc16Step(crc16, b) ==
  BitXor(crc16 \div 256, crc16Table[(BitXor(crc16, b) % 256) + 1])

\* the table index of one iteration: (crc16 ^ b) & 0x00ff
Crc16Index(crc16, b) == BitXor(crc16, b) % 256

RECURSIVE Crc16Loop(_, _, _, _)
\* the for loop from index a on; the running value of an iteration is
\* computed once and bound as next before the following iteration uses it
Crc16Loop(dataToCheck, a, sizeOfData, crc16) ==
  IF a < sizeOfData
    THEN CHOOSE result \in
           {Crc16Loop(d, a + 1, sizeOfData, next) :
              d \in {dataToCheck}, next \in {Crc16Step(crc16, dataToCheck[a + 1])}} : TRUE
    ELSE crc16

\* dataToCheck is a sequence of bytes; C index i is dataToCheck[i + 1]
CalculateCrc16(dataToCheck, sizeOfData) ==
  Crc16Loop(dataToCheck, 0, sizeOfData, 58112)

\* CalculateCrc16 on a pointer that may be NULL: the loop is skipped
CalculateCrc16OrNull(isNull, dataToCheck, sizeOfData) ==
  IF isNull THEN 58112 ELSE CalculateCrc16(dataToCheck, sizeOfData)

(***************************************************************************)
(* withinRange, isEscaped                                                  *)
(***************************************************************************)
withinRange_upper_off_by_one(value, minimum, maximum) ==
  minimum <= value /\ value <= maximum + 1

withinRange(value, minimum, maximum) ==
  minimum <= value /\ value <= maximum

isEscaped_with_e4(value) ==
  value \in {GEA_ESC, GEA_ACK, GEA_SOF, GEA_EOF, 228}

isEscaped_without_esc(value) ==
  value \in {GEA_ACK, GEA_SOF, GEA_EOF}

isEscaped(value) ==
  value \in {GEA_ESC, GEA_ACK, GEA_SOF, GEA_EOF}

(***************************************************************************)
(* Transmit buffer helpers                                                 *)
(***************************************************************************)
\* memcpy(txBuffer, &msg, n): the first Len(msg) bytes come from msg, the
\* remaining n - Len(msg) bytes are read from the stack behind msg; their
\* value is whatever the stack holds there (stale)
Memcpy(msg, n, stale) ==
  [i \in 1 .. n |-> IF i <= Len(msg) THEN msg[i] ELSE stale]

\* txBuffer[index] = value
Store(txBuffer, index, value) == [txBuffer EXCEPT ![index + 1] = value]

\* crc16 & 0xff and crc16 >> 8, as stored into a char
CrcLow_swapped(crc16) == crc16 \div 256

CrcLow(crc16) == crc16 % 256

CrcHigh(crc16) == crc16 \div 256

(***************************************************************************)
(* Frame encoders.  Each returns what the call leaves behind: the return   *)
(* value, the bytes printed on Serial2 (tx, empty when nothing is sent),   *)
(* and the locals crc16 and escapedBytes.                                  *)
(***************************************************************************)
\* msg.header.length of a board configuration message
BoardConfigLength_short == 10 - 1

BoardConfigLength == 10

\* msg.header.length of a power level message
PowerLevelsLength == 11

initSingleGenerator(address, profile1, profile2, stale) ==
  LET cmd == CMD_SET_BOARD_CONFIG
      msg == <<GEA_SOF, address, BoardConfigLength, LOCAL_ADDR, cmd, profile1, profile2>>
      txBufferSize == Len(msg) + 4
      copied == Memcpy(msg, txBufferSize, stale)
      crc16 == CalculateCrc16(copied, txBufferSize - 4)
      withLow == Store(copied, txBufferSize - 4, CrcLow(crc16))
      withHigh == Store(withLow, txBufferSize - 3, CrcHigh(crc16))
      withEof == Store(withHigh, txBufferSize - 2, GEA_EOF)
      txBuffer == Store(withEof, txBufferSize - 1, GEA_ACK)
  IN  [ret |-> 0, tx |-> txBuffer, crc16 |-> crc16, escapedBytes |-> 0,
       msgSize |-> Len(msg), memcpySize |-> txBufferSize,
       crcSize |-> txBufferSize - 4, assigned |-> 0 .. (Len(msg) - 1)]

setPowerLevels(address, coil1Level, coil2Level, heartbeat, stale) ==
  IF ~withinRange(coil1Level, minPowerSteps, maxPowerSteps)
       /\ ~withinRange(coil2Level, minPowerSteps, maxPowerSteps)
  THEN [ret |-> -1, tx |-> <<>>, crc16 |-> 0, escapedBytes |-> 0,
        msgSize |-> 0, memcpySize |-> 0, crcSize |-> 0, assigned |-> {}]
  ELSE
    LET escapedBytes == IF isEscaped(heartbeat) THEN 1 ELSE 0
        cmd == CMD_SET_PWR_LEVELS
        msg == <<GEA_SOF, address, PowerLevelsLength, LOCAL_ADDR, cmd, coil1Level, coil2Level>>
        txBufferSize == Len(msg) + 5 + escapedBytes
        copied == Memcpy(msg, txBufferSize, stale)
        withEsc == IF escapedBytes > 0
                     THEN Store(copied, txBufferSize - 6, GEA_ESC)
                     ELSE copied
        withHeartbeat == Store(withEsc, txBufferSize - 5, heartbeat)
        crc16 == CalculateCrc16(withHeartbeat, txBufferSize + escapedBytes - 4)
        withLow == Store(withHeartbeat, txBufferSize - 4, CrcLow(crc16))
        withHigh == Store(withLow, txBufferSize - 3, CrcHigh(crc16))
        withEof == Store(withHigh, txBufferSize - 2, GEA_EOF)
        txBuffer == Store(withEof, txBufferSize - 1, GEA_ACK)
    IN  [ret |-> 0, tx |-> txBuffer, crc16 |-> crc16, escapedBytes |-> escapedBytes,
         msgSize |-> Len(msg), memcpySize |-> txBufferSize,
         crcSize |-> txBufferSize + escapedBytes - 4,
         assigned |-> (0 .. (Len(msg) - 1))
                        \cup (IF escapedBytes > 0 THEN {txBufferSize - 6} ELSE {})
                        \cup {txBufferSize - 5}]

\* the stack bytes behind msg that memcpy copies: any byte value.  Only when
\* the heartbeat is escaped does one of them (txBuffer[9]) survive until it is
\* read, so only then are the values told apart.
StaleBytes(heartbeat) == IF isEscaped(heartbeat) THEN Byte ELSE {0}

(***************************************************************************)
(* initCooktop and loop: the encoder calls they make, in program order     *)
(***************************************************************************)
ConfigCall(address, profile1, profile2) ==
  [fn |-> "initSingleGenerator", address |-> address,
   arg1 |-> profile1, arg2 |-> profile2, heartbeat |-> 0]

PowerCall(address, coil1Level, coil2Level, hb) ==
  [fn |-> "setPowerLevels", address |-> address,
   arg1 |-> ToUint8(coil1Level), arg2 |-> ToUint8(coil2Level), heartbeat |-> ToUint8(hb)]

initCooktop_four_zero_before_config(p) ==
  IF p = PERSONALITY_FOUR_COILS THEN
    << ConfigCall(GEN1_ADDR, COIL_TYPE_2500_WATT, COIL_TYPE_2500_WATT),
       PowerCall(GEN2_ADDR, 0, 0, 0),
       ConfigCall(GEN2_ADDR, COIL_TYPE_3700_WATT, COIL_TYPE_1800_WATT),
       PowerCall(GEN1_ADDR, 0, 0, 0) >>
  ELSE IF p = PERSONALITY_FIVE_COILS THEN
    << ConfigCall(GEN1_ADDR, COIL_TYPE_2500_WATT, COIL_TYPE_2500_WATT),
       ConfigCall(GEN2_ADDR, COIL_TYPE_3700_WATT, COIL_TYPE_NONE),
       ConfigCall(GEN3_ADDR, COIL_TYPE_1800_WATT, COIL_TYPE_3200_WATT),
       PowerCall(GEN1_ADDR, 0, 0, 0),
       PowerCall(GEN2_ADDR, 0, 0, 0),
       PowerCall(GEN3_ADDR, 0, 0, 0) >>
  ELSE << >>

initCooktop_four_boards_swapped(p) ==
  IF p = PERSONALITY_FOUR_COILS THEN
    << ConfigCall(GEN2_ADDR, COIL_TYPE_2500_WATT, COIL_TYPE_2500_WATT),
       ConfigCall(GEN1_ADDR, COIL_TYPE_3700_WATT, COIL_TYPE_1800_WATT),
       PowerCall(GEN1_ADDR, 0, 0, 0),
       PowerCall(GEN2_ADDR, 0, 0, 0) >>
  ELSE IF p = PERSONALITY_FIVE_COILS THEN
    << ConfigCall(GEN1_ADDR, COIL_TYPE_2500_WATT, COIL_TYPE_2500_WATT),
       ConfigCall(GEN2_ADDR, COIL_TYPE_3700_WATT, COIL_TYPE_NONE),
       ConfigCall(GEN3_ADDR, COIL_TYPE_1800_WATT, COIL_TYPE_3200_WATT),
       PowerCall(GEN1_ADDR, 0, 0, 0),
       PowerCall(GEN2_ADDR, 0, 0, 0),
       PowerCall(GEN3_ADDR, 0, 0, 0) >>
  ELSE << >>

initCooktop_five_zero_before_config(p) ==
  IF p = PERSONALITY_FOUR_COILS THEN
    << ConfigCall(GEN1_ADDR, COIL_TYPE_2500_WATT, COIL_TYPE_2500_WATT),
       ConfigCall(GEN2_ADDR, COIL_TYPE_3700_WATT, COIL_TYPE_1800_WATT),
       PowerCall(GEN1_ADDR, 0, 0, 0),
       PowerCall(GEN2_ADDR, 0, 0, 0) >>
  ELSE IF p = PERSONALITY_FIVE_COILS THEN
    << ConfigCall(GEN1_ADDR, COIL_TYPE_2500_WATT, COIL_TYPE_2500_WATT),
       ConfigCall(GEN2_ADDR, COIL_TYPE_3700_WATT, COIL_TYPE_NONE),
       PowerCall(GEN1_ADDR, 0, 0, 0),
       ConfigCall(GEN3_ADDR, COIL_TYPE_1800_WATT, COIL_TYPE_3200_WATT),
       PowerCall(GEN2_ADDR, 0, 0, 0),
       PowerCall(GEN3_ADDR, 0, 0, 0) >>
  ELSE << >>

initCooktop(p) ==
  IF p = PERSONALITY_FOUR_COILS THEN
    << ConfigCall(GEN1_ADDR, COIL_TYPE_2500_WATT, COIL_TYPE_2500_WATT),
       ConfigCall(GEN2_ADDR, COIL_TYPE_3700_WATT, COIL_TYPE_1800_WATT),
       PowerCall(GEN1_ADDR, 0, 0, 0),
       PowerCall(GEN2_ADDR, 0, 0, 0) >>
  ELSE IF p = PERSONALITY_FIVE_COILS THEN
    << ConfigCall(GEN1_ADDR, COIL_TYPE_2500_WATT, COIL_TYPE_2500_WATT),
       ConfigCall(GEN2_ADDR, COIL_TYPE_3700_WATT, COIL_TYPE_NONE),
       ConfigCall(GEN3_ADDR, COIL_TYPE_1800_WATT, COIL_TYPE_3200_WATT),
       PowerCall(GEN1_ADDR, 0, 0, 0),
       PowerCall(GEN2_ADDR, 0, 0, 0),
       PowerCall(GEN3_ADDR, 0, 0, 0) >>
  ELSE << >>

\* Arduino map(x, in_min, in_max, out_min, out_max)
map(x, in_min, in_max, out_min, out_max) ==
  TruncDiv((x - in_min) * (out_max - out_min), in_max - in_min) + out_min

LoopCalls_four_uses_gen3(coils, pots, hb) ==
  IF coils = 4 THEN
    << PowerCall(GEN1_ADDR, pots[1], pots[2], hb),
       PowerCall(GEN3_ADDR, pots[3], pots[4], hb) >>
  ELSE IF coils = 5 THEN
    << PowerCall(GEN1_ADDR, pots[1], pots[2], hb),
       PowerCall(GEN2_ADDR, pots[5], 0, hb),
       PowerCall(GEN3_ADDR, pots[3], pots[4], hb) >>
  ELSE << >>

LoopCalls_reconfigures(coils, pots, hb) ==
  IF coils = 4 THEN
    << PowerCall(GEN1_ADDR, pots[1], pots[2], hb),
       ConfigCall(GEN2_ADDR, COIL_TYPE_3700_WATT, COIL_TYPE_1800_WATT) >>
  ELSE IF coils = 5 THEN
    << PowerCall(GEN1_ADDR, pots[1], pots[2], hb),
       PowerCall(GEN2_ADDR, pots[5], 0, hb),
       ConfigCall(GEN3_ADDR, COIL_TYPE_1800_WATT, COIL_TYPE_3200_WATT) >>
  ELSE << >>

\* switch(numberOfCoils) in loop(); pots[i + 1] is potValues[i]
LoopCalls(coils, pots, hb) ==
  IF coils = 4 THEN
    << PowerCall(GEN1_ADDR, pots[1], pots[2], hb),
       PowerCall(GEN2_ADDR, pots[3], pots[4], hb) >>
  ELSE IF coils = 5 THEN
    << PowerCall(GEN1_ADDR, pots[1], pots[2], hb),
       PowerCall(GEN2_ADDR, pots[5], 0, hb),
       PowerCall(GEN3_ADDR, pots[3], pots[4], hb) >>
  ELSE << >>

(***************************************************************************)
(* Bounds and input sets                                                   *)
(***************************************************************************)
\* control cycles of loop() that Spec follows
MaxCycles == 2

\* encoder calls that SpecApi follows
MaxCalls == 2

\* longest buffer handed to CalculateCrc16 in SpecCrc
MaxBufLen == 2

\* byte values of the buffers of SpecCrc
CrcBytes == {0, 1, 128, GEA_SOF, 255}

\* control cycles of loop() whose frames SpecLive keeps on bus
MaxLoggedCycles == 1

\* analogRead results of the five pots in SpecLive
LivePotReadings == {<<0, 0, 0, 0, 0>>, <<4095, 4095, 4095, 4095, 4095>>}

\* stack bytes behind msg in SpecLive
LiveStale == {0, 255}

\* control cycles of loop() that SpecLoop follows
MaxLoopCycles == 3

\* heartbeat at the loop head where SpecLoop starts
LoopHeads == {254}

\* analogRead results of the five pots in SpecLoop; 8191 is a reading of a
\* converter wider than 12 bits, which map() takes to level 38
WidePotReadings ==
  { <<0, 0, 0, 0, 0>>,
    <<8191, 8191, 0, 0, 0>>,
    <<0, 0, 8191, 8191, 8191>>,
    <<4095, 0, 8191, 8191, 0>>,
    <<8191, 8191, 8191, 8191, 8191>> }

\* raw analogRead results sampled for the five pots (12-bit ADC)
AdcSamples == {0, 4095}

\* arguments of SpecCall
CallAddresses == {GEN1_ADDR, GEN2_ADDR, GEN3_ADDR}
CallProfiles == {COIL_TYPE_NONE, COIL_TYPE_1800_WATT, COIL_TYPE_2500_WATT,
                 COIL_TYPE_3200_WATT, COIL_TYPE_3700_WATT, GEA_SOF}
CallLevels == {0, 19, 20, GEA_ACK}

\* arguments of SpecApi
ApiAddresses == {GEN1_ADDR}
ApiProfiles == {COIL_TYPE_2500_WATT, COIL_TYPE_3700_WATT}
ApiLevels == {0, 20, 255}
ApiHeartbeats == {0, GEA_ESC}
ApiStale == {0, 255}

(***************************************************************************)
(* State                                                                   *)
(***************************************************************************)
VARIABLES
  pc,            \* "boot", "init", "loop_entry", "loop"; "args", "returned"; "api"; "crc"
  step,          \* next call of initCooktop (pc = "init") or of the cycle (pc = "loop")
  personality,   \* local of setup, parameter of initCooktop
  numberOfCoils, \* global
  heartbeat,     \* local of loop
  potValues,     \* local of loop
  bus,           \* the frames printed on Serial2, oldest first
  call,          \* the latest encoder call: arguments and what it left behind
  ncalls,        \* encoder calls made
  cycles,        \* control cycles completed
  crcRun         \* the activation of CalculateCrc16 that SpecCrc follows

vars == <<pc, step, personality, numberOfCoils, heartbeat, potValues, bus, call, ncalls, cycles, crcRun>>

\* no activation of CalculateCrc16 is followed
NoCrcRun ==
  [isNull |-> FALSE, data |-> << >>, size |-> 0, a |-> 0,
   crc16 |-> 0, index |-> 0, done |-> FALSE]

NoCall ==
  [fn |-> "none", address |-> 0, arg1 |-> 0, arg2 |-> 0, heartbeat |-> 0,
   ret |-> 0, tx |-> << >>, crc16 |-> 0, escapedBytes |-> 0,
   msgSize |-> 0, memcpySize |-> 0, crcSize |-> 0, assigned |-> {}]

\* the encoder named by c.fn, applied to the arguments in c
Encode(c, stale) ==
  IF c.fn = "initSingleGenerator"
    THEN initSingleGenerator(c.address, c.arg1, c.arg2, stale)
    ELSE setPowerLevels(c.address, c.arg1, c.arg2, c.heartbeat, stale)

\* one encoder call: the for loop prints txBuffer on Serial2, a rejected
\* call prints nothing
DoCall(c) ==
  \E stale \in (IF c.fn = "setPowerLevels" THEN StaleBytes(c.heartbeat) ELSE {0}) :
    /\ call' = Encode(c, stale) @@ c
    /\ bus' = IF call'.tx = << >> THEN bus ELSE Append(bus, call'.tx)
    /\ ncalls' = ncalls + 1

(***************************************************************************)
(* Spec: the firmware run                                                  *)
(***************************************************************************)
Init ==
  /\ pc = "boot"
  /\ step = 0
  /\ personality = 0
  /\ numberOfCoils = 0
  /\ heartbeat = 0
  /\ potValues = <<0, 0, 0, 0, 0>>
  /\ bus = << >>
  /\ call = NoCall
  /\ ncalls = 0
  /\ cycles = 0
  /\ crcRun = NoCrcRun

\* setup() up to the call of initCooktop
Setup ==
  /\ pc = "boot"
  /\ \E pin \in {0, 1} :
       IF pin = 1
         THEN personality' = 1 /\ numberOfCoils' = 5
         ELSE personality' = 0 /\ numberOfCoils' = 4
  /\ pc' = "init"
  /\ step' = 1
  /\ UNCHANGED <<heartbeat, potValues, bus, call, ncalls, cycles, crcRun>>

\* one encoder call of initCooktop and the delay(100) after it; after the
\* last one initCooktop and setup return
InitCooktopStep ==
  /\ pc = "init"
  /\ step <= Len(initCooktop(personality))
  /\ DoCall(initCooktop(personality)[step])
  /\ IF step = Len(initCooktop(personality))
       THEN pc' = "loop_entry" /\ step' = 0
       ELSE pc' = "init" /\ step' = step + 1
  /\ UNCHANGED <<personality, numberOfCoils, heartbeat, potValues, cycles, crcRun>>

\* loop() is entered: for(heartbeat = 0; ...
LoopEnter ==
  /\ pc = "loop_entry"
  /\ heartbeat' = 0
  /\ pc' = "loop"
  /\ step' = 0
  /\ UNCHANGED <<personality, numberOfCoils, potValues, bus, call, ncalls, cycles, crcRun>>

\* head of the loop body: the five pots are read and mapped
LoopSample ==
  /\ pc = "loop"
  /\ step = 0
  /\ heartbeat < 256
  /\ cycles < MaxCycles
  /\ \E adc \in [1 .. 5 -> AdcSamples] :
       potValues' = [i \in 1 .. 5 |-> map(adc[i], 41, 4095, minPowerSteps, maxPowerSteps)]
  /\ step' = 1
  /\ UNCHANGED <<pc, personality, numberOfCoils, heartbeat, bus, call, ncalls, cycles, crcRun>>

LoopSend_aborts_cycle ==
  /\ pc = "loop"
  /\ step >= 1
  /\ step <= Len(LoopCalls(numberOfCoils, potValues, heartbeat))
  /\ DoCall(LoopCalls(numberOfCoils, potValues, heartbeat)[step])
  /\ step' = IF call'.ret = 0
               THEN step + 1
               ELSE Len(LoopCalls(numberOfCoils, potValues, heartbeat)) + 1
  /\ UNCHANGED <<pc, personality, numberOfCoils, heartbeat, potValues, cycles, crcRun>>

\* one setPowerLevels call of the switch
LoopSend ==
  /\ pc = "loop"
  /\ step >= 1
  /\ step <= Len(LoopCalls(numberOfCoils, potValues, heartbeat))
  /\ DoCall(LoopCalls(numberOfCoils, potValues, heartbeat)[step])
  /\ step' = step + 1
  /\ UNCHANGED <<pc, personality, numberOfCoils, heartbeat, potValues, cycles, crcRun>>

LoopDelay_only_after_accept ==
  /\ pc = "loop"
  /\ step > Len(LoopCalls(numberOfCoils, potValues, heartbeat))
  /\ heartbeat' = IF call.ret = 0 THEN heartbeat + 1 ELSE heartbeat
  /\ pc' = IF heartbeat' < 256 THEN "loop" ELSE "loop_entry"
  /\ step' = 0
  /\ cycles' = cycles + 1
  /\ UNCHANGED <<personality, numberOfCoils, potValues, bus, call, ncalls, crcRun>>

\* delay(500); heartbeat++; when heartbeat reaches 256 loop() returns and is
\* entered again
LoopDelay ==
  /\ pc = "loop"
  /\ step > Len(LoopCalls(numberOfCoils, potValues, heartbeat))
  /\ heartbeat' = heartbeat + 1
  /\ pc' = IF heartbeat + 1 < 256 THEN "loop" ELSE "loop_entry"
  /\ step' = 0
  /\ cycles' = cycles + 1
  /\ UNCHANGED <<personality, numberOfCoils, potValues, bus, call, ncalls, crcRun>>

Next ==
  \/ Setup
  \/ InitCooktopStep
  \/ LoopEnter
  \/ LoopSample
  \/ LoopSend
  \/ LoopDelay

Spec == Init /\ [][Next]_vars

(***************************************************************************)
(* SpecCall: one encoder call; Init draws the arguments                    *)
(***************************************************************************)
InitCall ==
  /\ pc = "args"
  /\ step = 0
  /\ personality = 0
  /\ numberOfCoils = 0
  /\ heartbeat = 0
  /\ potValues = <<0, 0, 0, 0, 0>>
  /\ bus = << >>
  /\ ncalls = 0
  /\ cycles = 0
  /\ crcRun = NoCrcRun
  /\ \/ \E a \in CallAddresses, p1 \in CallProfiles, p2 \in CallProfiles :
          call = [NoCall EXCEPT !.fn = "initSingleGenerator",
                                !.address = a, !.arg1 = p1, !.arg2 = p2]
     \/ \E a \in CallAddresses, c1 \in CallLevels, c2 \in CallLevels, hb \in Byte :
          call = [NoCall EXCEPT !.fn = "setPowerLevels",
                                !.address = a, !.arg1 = c1, !.arg2 = c2, !.heartbeat = hb]

CallInitSingleGenerator ==
  /\ pc = "args"
  /\ call.fn = "initSingleGenerator"
  /\ DoCall(call)
  /\ pc' = "returned"
  /\ UNCHANGED <<step, personality, numberOfCoils, heartbeat, potValues, cycles, crcRun>>

CallSetPowerLevels ==
  /\ pc = "args"
  /\ call.fn = "setPowerLevels"
  /\ DoCall(call)
  /\ pc' = "returned"
  /\ UNCHANGED <<step, personality, numberOfCoils, heartbeat, potValues, cycles, crcRun>>

NextCall ==
  \/ CallInitSingleGenerator
  \/ CallSetPowerLevels

SpecCall == InitCall /\ [][NextCall]_vars

(***************************************************************************)
(* SpecApi: a series of encoder calls                                      *)
(***************************************************************************)
InitApi ==
  /\ pc = "api"
  /\ step = 0
  /\ personality = 0
  /\ numberOfCoils = 0
  /\ heartbeat = 0
  /\ potValues = <<0, 0, 0, 0, 0>>
  /\ bus = << >>
  /\ call = NoCall
  /\ ncalls = 0
  /\ cycles = 0
  /\ crcRun = NoCrcRun

\* the call made with stale stack contents drawn from ApiStale
DoApiCall(c) ==
  \E stale \in ApiStale :
    /\ call' = Encode(c, stale) @@ c
    /\ bus' = IF call'.tx = << >> THEN bus ELSE Append(bus, call'.tx)
    /\ ncalls' = ncalls + 1

ApiInitSingleGenerator ==
  /\ pc = "api"
  /\ ncalls < MaxCalls
  /\ \E a \in ApiAddresses, p1 \in ApiProfiles, p2 \in ApiProfiles :
       DoApiCall(ConfigCall(a, p1, p2))
  /\ UNCHANGED <<pc, step, personality, numberOfCoils, heartbeat, potValues, cycles, crcRun>>

ApiSetPowerLevels ==
  /\ pc = "api"
  /\ ncalls < MaxCalls
  /\ \E a \in ApiAddresses, c1 \in ApiLevels, c2 \in ApiLevels, hb \in ApiHeartbeats :
       DoApiCall(PowerCall(a, c1, c2, hb))
  /\ UNCHANGED <<pc, step, personality, numberOfCoils, heartbeat, potValues, cycles, crcRun>>

NextApi ==
  \/ ApiInitSingleGenerator
  \/ ApiSetPowerLevels

SpecApi == InitApi /\ [][NextApi]_vars

(***************************************************************************)
(* SpecLoop: loop() from the head of a late control cycle, across the      *)
(* return and re-entry of loop(), with pot readings that make              *)
(* setPowerLevels reject.  bus, call, ncalls and cycles count from that    *)
(* loop head on.                                                           *)
(***************************************************************************)
InitLoop ==
  /\ pc = "loop"
  /\ step = 0
  /\ \E p \in {PERSONALITY_FOUR_COILS, PERSONALITY_FIVE_COILS} :
       /\ personality = p
       /\ numberOfCoils = (IF p = PERSONALITY_FIVE_COILS THEN 5 ELSE 4)
  /\ heartbeat \in LoopHeads
  /\ potValues = <<0, 0, 0, 0, 0>>
  /\ bus = << >>
  /\ call = NoCall
  /\ ncalls = 0
  /\ cycles = 0
  /\ crcRun = NoCrcRun

\* head of the loop body, the pots read from WidePotReadings
LoopSampleWide ==
  /\ pc = "loop"
  /\ step = 0
  /\ heartbeat < 256
  /\ cycles < MaxLoopCycles
  /\ \E adc \in WidePotReadings :
       potValues' = [i \in 1 .. 5 |-> map(adc[i], 41, 4095, minPowerSteps, maxPowerSteps)]
  /\ step' = 1
  /\ UNCHANGED <<pc, personality, numberOfCoils, heartbeat, bus, call, ncalls, cycles, crcRun>>

NextLoop ==
  \/ LoopEnter
  \/ LoopSampleWide
  \/ LoopSend
  \/ LoopDelay

SpecLoop == InitLoop /\ [][NextLoop]_vars

(***************************************************************************)
(* SpecLive: the firmware run without an end: setup, initCooktop and every *)
(* control cycle of loop(), around all 256 heartbeats and again.  bus,     *)
(* ncalls and cycles cover initialization and the first MaxLoggedCycles    *)
(* cycles; later cycles show in pc, step, heartbeat and call.              *)
(***************************************************************************)
LiveLoopSample ==
  /\ pc = "loop"
  /\ step = 0
  /\ heartbeat < 256
  /\ \E adc \in LivePotReadings :
       potValues' = [i \in 1 .. 5 |-> map(adc[i], 41, 4095, minPowerSteps, maxPowerSteps)]
  /\ step' = 1
  /\ UNCHANGED <<pc, personality, numberOfCoils, heartbeat, bus, call, ncalls, cycles, crcRun>>

LiveLoopSend ==
  /\ pc = "loop"
  /\ step >= 1
  /\ step <= Len(LoopCalls(numberOfCoils, potValues, heartbeat))
  /\ LET c == LoopCalls(numberOfCoils, potValues, heartbeat)[step] IN
       \E stale \in LiveStale :
         /\ call' = Encode(c, stale) @@ c
         /\ bus' = IF call'.tx = << >> \/ cycles >= MaxLoggedCycles
                     THEN bus ELSE Append(bus, call'.tx)
         /\ ncalls' = IF cycles >= MaxLoggedCycles THEN ncalls ELSE ncalls + 1
  /\ step' = step + 1
  /\ UNCHANGED <<pc, personality, numberOfCoils, heartbeat, potValues, cycles, crcRun>>

LiveLoopDelay ==
  /\ pc = "loop"
  /\ step > Len(LoopCalls(numberOfCoils, potValues, heartbeat))
  /\ heartbeat' = heartbeat + 1
  /\ pc' = IF heartbeat + 1 < 256 THEN "loop" ELSE "loop_entry"
  /\ step' = 0
  /\ cycles' = IF cycles >= MaxLoggedCycles THEN cycles ELSE cycles + 1
  /\ UNCHANGED <<personality, numberOfCoils, potValues, bus, call, ncalls, crcRun>>

NextLive ==
  \/ Setup
  \/ InitCooktopStep
  \/ LoopEnter
  \/ LiveLoopSample
  \/ LiveLoopSend
  \/ LiveLoopDelay

\* the processor keeps executing: delay() returns and no call blocks
SpecLive == Init /\ [][NextLive]_vars /\ WF_vars(NextLive)

(***************************************************************************)
(* SpecCrc: one activation of CalculateCrc16, one loop iteration per step; *)
(* Init draws the buffer, the size and whether the pointer is NULL         *)
(***************************************************************************)
CrcBuffers == UNION {[1 .. n -> CrcBytes] : n \in 0 .. MaxBufLen}

\* crc16 = 0xe300; ptr = dataToCheck; have been executed
InitCrc ==
  /\ pc = "crc"
  /\ step = 0
  /\ personality = 0
  /\ numberOfCoils = 0
  /\ heartbeat = 0
  /\ potValues = <<0, 0, 0, 0, 0>>
  /\ bus = << >>
  /\ call = NoCall
  /\ ncalls = 0
  /\ cycles = 0
  /\ \/ \E d \in CrcBuffers, n \in 0 .. MaxBufLen :
          /\ n <= Len(d)
          /\ crcRun = [isNull |-> FALSE, data |-> d, size |-> n, a |-> 0,
                       crc16 |-> 58112, index |-> 0, done |-> FALSE]
     \/ \E n \in 0 .. MaxBufLen :
          crcRun = [isNull |-> TRUE, data |-> << >>, size |-> n, a |-> 0,
                    crc16 |-> 58112, index |-> 0, done |-> FALSE]

\* one iteration of the for loop
CrcIterate ==
  /\ pc = "crc"
  /\ ~crcRun.done
  /\ ~crcRun.isNull
  /\ crcRun.a < crcRun.size
  /\ crcRun' = [crcRun EXCEPT
       !.index = Crc16Index(crcRun.crc16, crcRun.data[crcRun.a + 1]),
       !.crc16 = Crc16Step(crcRun.crc16, crcRun.data[crcRun.a + 1]),
       !.a = crcRun.a + 1]
  /\ UNCHANGED <<pc, step, personality, numberOfCoils, heartbeat, potValues,
                 bus, call, ncalls, cycles>>

\* return crc16;
CrcReturn ==
  /\ pc = "crc"
  /\ ~crcRun.done
  /\ crcRun.isNull \/ crcRun.a >= crcRun.size
  /\ crcRun' = [crcRun EXCEPT !.done = TRUE]
  /\ UNCHANGED <<pc, step, personality, numberOfCoils, heartbeat, potValues,
                 bus, call, ncalls, cycles>>

NextCrc ==
  \/ CrcIterate
  \/ CrcReturn

SpecCrc == InitCrc /\ [][NextCrc]_vars

TypeOK ==
  /\ pc \in {"boot", "init", "loop_entry", "loop", "args", "returned", "api", "crc"}
  /\ numberOfCoils \in {0, 4, 5}
  /\ heartbeat \in 0 .. 256
  /\ \A i \in 1 .. Len(bus) : \A j \in 1 .. Len(bus[i]) : bus[i][j] \in Byte
  /\ call.crc16 \in 0 .. 65535

(***************************************************************************)
(* Vocabulary of the properties                                            *)
(***************************************************************************)
\* the four reserved byte values of the protocol
ControlCodes == {224, 225, 226, 227}

\* a coil level inside the supported range
LevelInRange(v) == 0 <= v /\ v <= 19

\* the latest encoder call has returned
Returned == pc # "args" /\ call.fn # "none"

\* the latest encoder call has returned and has printed a frame
Sent == Returned /\ call.tx # << >>

\* the payload fields of the latest call, in declaration order
PayloadFields ==
  IF call.fn = "initSingleGenerator"
    THEN <<call.arg1, call.arg2>>
    ELSE <<call.arg1, call.arg2, call.heartbeat>>

\* the command code of the latest call
CommandCode == IF call.fn = "initSingleGenerator" THEN 38 ELSE 40

\* the logical (pre-escaping) bytes from SOF to the last payload field
LogicalBytes == <<226, call.address, call.tx[3], 135, CommandCode>> \o PayloadFields

RECURSIVE FieldsEscaped(_, _, _)
\* from position p on, stream carries the fields in order, each control-code
\* value directly behind an escape marker
FieldsEscaped(stream, p, fields) ==
  IF fields = << >> THEN TRUE
  ELSE IF Head(fields) \in ControlCodes
    THEN /\ p + 1 <= Len(stream)
         /\ stream[p] = 224
         /\ stream[p + 1] = Head(fields)
         /\ FieldsEscaped(stream, p + 2, Tail(fields))
    ELSE /\ p <= Len(stream)
         /\ stream[p] = Head(fields)
         /\ FieldsEscaped(stream, p + 1, Tail(fields))

RECURSIVE NoBareControlCode(_, _, _)
\* a receiver reading stream[p .. last]: an escape marker covers the byte
\* behind it, every other byte is no control code
NoBareControlCode(stream, p, last) ==
  IF p > last THEN TRUE
  ELSE IF stream[p] = 224 THEN NoBareControlCode(stream, p + 2, last)
  ELSE stream[p] \notin ControlCodes /\ NoBareControlCode(stream, p + 1, last)

RECURSIVE Unescape(_)
\* the reference decoder's de-escaping: an escape marker is dropped and the
\* byte behind it is taken as data
Unescape(stream) ==
  IF stream = << >> THEN << >>
  ELSE IF Head(stream) = 224
    THEN IF Len(stream) = 1 THEN << >>
         ELSE <<stream[2]>> \o Unescape(SubSeq(stream, 3, Len(stream)))
    ELSE <<Head(stream)>> \o Unescape(Tail(stream))

\* destination, command and payload bytes of a frame without escape marker
Summary(frame) == <<frame[2], frame[5], SubSeq(frame, 6, Len(frame) - 4)>>

(***************************************************************************)
(* C1: in every transmitted frame the two checksum bytes are the low and   *)
(* high byte of CalculateCrc16 over exactly the logical bytes SOF,         *)
(* destination, length, source, command, payload (7 or 8 bytes).           *)
(* Fails: with an escaped heartbeat setPowerLevels checksums 10 bytes, the *)
(* escape marker and one stale byte behind the heartbeat included.         *)
(***************************************************************************)
C1_ChecksumOverLogicalBytes ==
  Sent =>
    LET n == Len(call.tx)
        crc == CalculateCrc16(LogicalBytes, Len(LogicalBytes))
    IN  /\ Len(LogicalBytes) = (IF call.fn = "initSingleGenerator" THEN 7 ELSE 8)
        /\ call.tx[n - 3] = crc % 256
        /\ call.tx[n - 2] = crc \div 256

(***************************************************************************)
(* C2: in every transmitted frame each payload byte (coil profile, coil    *)
(* level, heartbeat) that equals a control code directly follows an escape *)
(* marker.  Fails: only the heartbeat is ever escaped.                     *)
(***************************************************************************)
C2_PayloadControlCodesEscaped ==
  Sent => FieldsEscaped(call.tx, 6, PayloadFields)

(***************************************************************************)
(* C3: between the leading SOF and the trailing EOF of a transmitted frame *)
(* no byte is a control code unless it is an escape marker or directly     *)
(* follows one.  Fails: the checksum bytes are stored as computed.         *)
(***************************************************************************)
C3_NoBareControlCodeInFrame ==
  Sent => NoBareControlCode(call.tx, 2, Len(call.tx) - 2)

(***************************************************************************)
(* C4 as stated: the length field equals header (4) + command (1) +        *)
(* payload fields + checksum (2), the terminator and ACK not counted.      *)
(***************************************************************************)
C4_LengthExcludesTerminator ==
  Sent => call.tx[3] = 4 + 1 + Len(PayloadFields) + 2

(***************************************************************************)
(* C4 amended: the length field equals the logical byte count of the frame *)
(* from SOF through the EOF terminator: header (4) + command (1) + payload *)
(* fields + checksum (2) + EOF (1); escape markers and the ACK byte are    *)
(* not counted.  That is 0x0A for a configuration frame and 0x0B for a     *)
(* power-level frame.                                                      *)
(***************************************************************************)
C4_LengthCountsThroughEof ==
  Sent =>
    /\ call.tx[3] = 4 + 1 + Len(PayloadFields) + 2 + 1
    /\ call.tx[3] = Len(call.tx) - call.escapedBytes - 1
    /\ call.tx[3] = (IF call.fn = "initSingleGenerator" THEN 10 ELSE 11)

C4_Witness ==
  /\ Sent
  /\ call.fn = "setPowerLevels"
  /\ call.escapedBytes = 1
  /\ call.tx[3] = 11
  /\ Len(call.tx) = 13

(***************************************************************************)
(* C5: round trip.  A reference decoder that strips SOF, EOF and ACK,      *)
(* removes the escape markers and recomputes the CRC-16 over the           *)
(* de-escaped header and payload finds the transmitted checksum and        *)
(* recovers destination, length, source, command and payload.              *)
(* Fails with an escaped heartbeat (the checksum of C1), with a coil byte  *)
(* that is a control code (C2) and with a checksum byte 0xE0 (C3).         *)
(***************************************************************************)
C5_RoundTrip ==
  Sent =>
    LET inner == Unescape(SubSeq(call.tx, 2, Len(call.tx) - 2))
        m == Len(inner)
        body == SubSeq(inner, 1, m - 2)
        crc == CalculateCrc16(<<call.tx[1]>> \o body, m - 1)
    IN  /\ m >= 2
        /\ inner[m - 1] = crc % 256
        /\ inner[m] = crc \div 256
        /\ body = <<call.address,
                    IF call.fn = "initSingleGenerator" THEN 10 ELSE 11,
                    135, CommandCode>> \o PayloadFields

(***************************************************************************)
(* C6: a setPowerLevels call with both coil levels outside [0,19] returns  *)
(* -1 and prints nothing, so the frames on the bus are the same after the  *)
(* call as before it, however many such calls follow one another.          *)
(***************************************************************************)
C6_RejectedCallWritesNothing ==
  [][(/\ ncalls' = ncalls + 1
      /\ call'.fn = "setPowerLevels"
      /\ ~LevelInRange(call'.arg1)
      /\ ~LevelInRange(call'.arg2))
     => (call'.ret = -1 /\ call'.tx = << >> /\ bus' = bus)]_vars

C6_Witness ==
  /\ pc = "api"
  /\ ncalls = 2
  /\ call.fn = "setPowerLevels"
  /\ call.ret = -1
  /\ ~LevelInRange(call.arg1)
  /\ ~LevelInRange(call.arg2)
  /\ bus = << >>

(***************************************************************************)
(* C7: a setPowerLevels call with at least one coil level in [0,19]        *)
(* returns 0 and transmits exactly one frame with length field 0x0B, the   *)
(* coil levels at their fixed positions; a heartbeat that is a control     *)
(* code directly follows an escape marker (13 bytes), any other heartbeat  *)
(* follows the coil levels with no marker (12 bytes).                      *)
(***************************************************************************)
C7_AcceptedCallFrame ==
  (/\ pc = "returned"
   /\ call.fn = "setPowerLevels"
   /\ (LevelInRange(call.arg1) \/ LevelInRange(call.arg2)))
  =>
  (/\ call.ret = 0
   /\ bus = <<call.tx>>
   /\ call.tx[3] = 11
   /\ call.tx[6] = call.arg1
   /\ call.tx[7] = call.arg2
   /\ IF call.heartbeat \in ControlCodes
        THEN Len(call.tx) = 13 /\ call.tx[8] = 224 /\ call.tx[9] = call.heartbeat
        ELSE Len(call.tx) = 12 /\ call.tx[8] = call.heartbeat)

C7_Witness ==
  /\ pc = "returned"
  /\ call.fn = "setPowerLevels"
  /\ call.heartbeat = 227
  /\ call.arg1 = 19
  /\ ~LevelInRange(call.arg2)
  /\ call.ret = 0
  /\ Len(call.tx) = 13

(***************************************************************************)
(* C8: every frame on the bus starts with SOF, destination, length and     *)
(* the source 0x87, then the command (0x26 with the two profiles, 0x28     *)
(* with coil-1 level, coil-2 level, heartbeat, nothing but an escape       *)
(* marker between them), then the low and the high byte of the checksum    *)
(* the encoder computed, then EOF and ACK.                                 *)
(***************************************************************************)
C8_FrameLayout ==
  Sent =>
    LET n == Len(call.tx) IN
      /\ n >= 11
      /\ bus[Len(bus)] = call.tx
      /\ call.tx[1] = 226
      /\ call.tx[2] = call.address
      /\ call.tx[3] \in {10, 11}
      /\ call.tx[4] = 135
      /\ call.tx[5] = CommandCode
      /\ call.tx[6] = call.arg1
      /\ call.tx[7] = call.arg2
      /\ IF call.fn = "initSingleGenerator"
           THEN n = 11
           ELSE /\ call.tx[n - 4] = call.heartbeat
                /\ n - 4 > 7
                /\ \A i \in 8 .. n - 5 : call.tx[i] = 224
                /\ n - 5 <= 8
      /\ call.tx[n - 3] = call.crc16 % 256
      /\ call.tx[n - 2] = call.crc16 \div 256
      /\ call.tx[n - 1] = 227
      /\ call.tx[n] = 225

C8_Witness ==
  /\ pc = "returned"
  /\ call.fn = "initSingleGenerator"
  /\ call.address = 138
  /\ Len(call.tx) = 11
  /\ call.tx[8] # call.tx[9]

(***************************************************************************)
(* C9: with the 4-coil personality initCooktop transmits exactly four      *)
(* frames and nothing else: configuration of 0x88 (2500W, 2500W),          *)
(* configuration of 0x89 (3700W, 1800W), power levels (0, 0, heartbeat 0)  *)
(* to 0x88, power levels (0, 0, heartbeat 0) to 0x89; none goes to 0x8A.   *)
(***************************************************************************)
Expected4 ==
  << <<136, 38, <<2, 2>>>>,
     <<137, 38, <<4, 1>>>>,
     <<136, 40, <<0, 0, 0>>>>,
     <<137, 40, <<0, 0, 0>>>> >>

\* the frames sent so far by initCooktop are the first ones of expected, and
\* when initCooktop has returned they are all of expected
InitFramesAre(expected) ==
  /\ pc = "init" => Len(bus) = step - 1 /\ Len(bus) < Len(expected)
  /\ pc # "init" => Len(bus) >= Len(expected)
  /\ (pc = "loop_entry" /\ cycles = 0) => Len(bus) = Len(expected)
  /\ \A i \in 1 .. Len(expected) : i <= Len(bus) => Summary(bus[i]) = expected[i]

C9_FourCoilInitFrames ==
  (pc \in {"init", "loop_entry", "loop"} /\ personality = 0)
    => /\ InitFramesAre(Expected4)
       /\ \A i \in 1 .. Len(bus) : i <= 4 => bus[i][2] # 138

C9_Witness ==
  /\ pc = "loop_entry"
  /\ cycles = 0
  /\ personality = 0
  /\ numberOfCoils = 4
  /\ Len(bus) = 4

(***************************************************************************)
(* C10: with the 5-coil personality initCooktop transmits exactly six      *)
(* frames: configuration of 0x88 (2500W, 2500W), of 0x89 (3700W, none),    *)
(* of 0x8A (1800W, 3200W), then power levels (0, 0, heartbeat 0) to 0x88,  *)
(* 0x89 and 0x8A; the three configuration frames come first.               *)
(***************************************************************************)
Expected5 ==
  << <<136, 38, <<2, 2>>>>,
     <<137, 38, <<4, 0>>>>,
     <<138, 38, <<1, 3>>>>,
     <<136, 40, <<0, 0, 0>>>>,
     <<137, 40, <<0, 0, 0>>>>,
     <<138, 40, <<0, 0, 0>>>> >>

C10_FiveCoilInitFrames ==
  (pc \in {"init", "loop_entry", "loop"} /\ personality = 1)
    => /\ InitFramesAre(Expected5)
       /\ \A i \in 1 .. Len(bus) : \A j \in 1 .. Len(bus) :
            (i <= 6 /\ j <= 6 /\ bus[i][5] = 38 /\ bus[j][5] = 40) => i < j

C10_Witness ==
  /\ pc = "loop_entry"
  /\ cycles = 0
  /\ personality = 1
  /\ numberOfCoils = 5
  /\ Len(bus) = 6

(***************************************************************************)
(* C11: CalculateCrc16 is a pure function of its buffer: the result is the *)
(* left fold of crc := (crc >> 8) XOR crc16Table[(crc XOR byte) AND 0xFF]  *)
(* over the first sizeOfData bytes from the seed 0xE300; every table index *)
(* is in 0..255; the result fits in 16 bits; a zero-length or NULL buffer  *)
(* gives 0xE300; nothing but the locals of the call changes.               *)
(***************************************************************************)
RECURSIVE RefXorBits(_, _, _)
\* exclusive or of the low n bits of x and y
RefXorBits(x, y, n) ==
  IF n = 0 THEN 0
  ELSE (IF (x % 2) = (y % 2) THEN 0 ELSE 1) + 2 * RefXorBits(x \div 2, y \div 2, n - 1)

RECURSIVE RefCrcFold(_, _)
\* the fold of the claim over the first n bytes
RefCrcFold(bytes, n) ==
  IF n = 0 THEN 58112
  ELSE LET crc == RefCrcFold(bytes, n - 1)
       IN  RefXorBits(crc \div 256,
                      crc16Table[(RefXorBits(crc, bytes[n], 16) % 256) + 1], 16)

C11_CrcIsFoldFromSeed ==
  pc = "crc" =>
    /\ crcRun.index \in 0 .. 255
    /\ crcRun.crc16 \in 0 .. 65535
    /\ ~crcRun.isNull => crcRun.crc16 = RefCrcFold(crcRun.data, crcRun.a)
    /\ crcRun.done =>
         /\ crcRun.crc16 = (IF crcRun.isNull THEN 58112
                            ELSE RefCrcFold(crcRun.data, crcRun.size))
         /\ crcRun.crc16 = CalculateCrc16OrNull(crcRun.isNull, crcRun.data, crcRun.size)
         /\ (crcRun.size = 0 \/ crcRun.isNull) => crcRun.crc16 = 58112
    /\ bus = << >> /\ call = NoCall /\ numberOfCoils = 0

C11_Witness ==
  /\ pc = "crc"
  /\ crcRun.done
  /\ ~crcRun.isNull
  /\ crcRun.size = 2
  /\ crcRun.data = <<226, 255>>
  /\ crcRun.crc16 # 58112

(***************************************************************************)
(* C12: for every byte value b in 0..255, isEscaped(b) is true if and only *)
(* if b is one of 0xE0, 0xE1, 0xE2, 0xE3.  Observed on setPowerLevels,     *)
(* whose escapedBytes is 1 exactly when isEscaped(heartbeat) returned      *)
(* true, for every heartbeat byte.                                         *)
(***************************************************************************)
C12_EscapedIffControlCode ==
  /\ pc = "args" /\ call.fn = "setPowerLevels" =>
       (isEscaped(call.heartbeat) <=> call.heartbeat \in {224, 225, 226, 227})
  /\ pc = "returned" /\ call.fn = "setPowerLevels" /\ call.ret = 0 =>
       /\ call.escapedBytes = 1 <=> call.heartbeat \in {224, 225, 226, 227}
       /\ call.escapedBytes = 0 <=> call.heartbeat \notin {224, 225, 226, 227}

C12_Witness ==
  /\ pc = "returned"
  /\ call.fn = "setPowerLevels"
  /\ call.ret = 0
  /\ call.heartbeat = 226
  /\ call.escapedBytes = 1
  /\ call.arg1 = 0
  /\ call.arg2 = 0

(***************************************************************************)
(* C13: over the whole run each board of the selected topology receives    *)
(* exactly one board-configuration frame (command 0x26), sent during       *)
(* initialization; once the control loop has started no configuration      *)
(* frame is sent again and every frame the loop sends is a power-level     *)
(* frame (command 0x28).                                                   *)
(***************************************************************************)
\* the boards of the selected topology
TopologyBoards == IF personality = 1 THEN {136, 137, 138} ELSE {136, 137}

\* positions on the bus of the configuration frames addressed to board b
ConfigFramesTo(b) == {i \in 1 .. Len(bus) : bus[i][5] = 38 /\ bus[i][2] = b}

C13_ConfigOncePerBoard ==
  /\ pc = "init" =>
       /\ \A b \in TopologyBoards : Cardinality(ConfigFramesTo(b)) <= 1
       /\ \A i \in 1 .. Len(bus) : bus[i][2] \in TopologyBoards
  /\ pc \in {"loop_entry", "loop"} =>
       /\ \A b \in TopologyBoards : Cardinality(ConfigFramesTo(b)) = 1
       /\ \A i \in 1 .. Len(bus) :
            /\ bus[i][5] \in {38, 40}
            /\ bus[i][5] = 38 =>
                 (i <= Cardinality(TopologyBoards) /\ bus[i][2] \in TopologyBoards)
            /\ i > 2 * Cardinality(TopologyBoards) => bus[i][5] = 40

C13_Witness ==
  /\ pc = "loop"
  /\ cycles = 1
  /\ step = 0
  /\ personality = 1
  /\ Len(bus) = 9
  /\ bus[9][5] = 40
  /\ Cardinality(ConfigFramesTo(138)) = 1

(***************************************************************************)
(* C14: in the control loop all power-level commands of one control cycle  *)
(* carry the same heartbeat, and the heartbeat of each cycle is that of    *)
(* the previous cycle plus 1 modulo 256 (255 is followed by 0, also across *)
(* the re-entry of loop()), whether the commands of the cycle were         *)
(* accepted or rejected.                                                   *)
(***************************************************************************)
\* a step in which the control loop issues a command
LoopCommandIssued == pc = "loop" /\ ncalls' = ncalls + 1

C14_HeartbeatStep ==
  LoopCommandIssued =>
    /\ call'.fn = "setPowerLevels"
    /\ call'.heartbeat \in 0 .. 255
    \* a later command of the cycle: the heartbeat of the one before it
    /\ step > 1 => call'.heartbeat = call.heartbeat
    \* the first command of a cycle: one more than in the cycle before
    /\ (step = 1 /\ call.fn = "setPowerLevels") =>
         call'.heartbeat = (call.heartbeat + 1) % 256

C14_HeartbeatPerCycle == [][C14_HeartbeatStep]_vars

\* the first command after the re-entry of loop(), behind a cycle whose
\* commands were all rejected
C14_Witness ==
  /\ pc = "loop"
  /\ step = 2
  /\ cycles = 2
  /\ numberOfCoils = 4
  /\ call.heartbeat = 0
  /\ call.ret = -1
  /\ bus = << >>

(***************************************************************************)
(* C15: the personality selected in setup is never changed afterwards:     *)
(* numberOfCoils is written once and stays 4 or 5.  With the 4-coil        *)
(* personality every frame ever transmitted, in initialization and in      *)
(* every control cycle, is addressed to 0x88 or 0x89 and never to 0x8A;    *)
(* with the 5-coil personality every control cycle issues its commands to  *)
(* 0x88, 0x89, 0x8A in that order.                                         *)
(***************************************************************************)
\* the frames of the control loop, behind the six of the 5-coil
\* initialization, go to 0x88, 0x89, 0x8A in turn
FiveCoilCycleOrder ==
  \A i \in 1 .. Len(bus) :
    i > 6 => /\ bus[i][5] = 40
             /\ bus[i][2] = <<136, 137, 138>>[((i - 7) % 3) + 1]

C15_Topology ==
  pc # "boot" =>
    /\ numberOfCoils \in {4, 5}
    /\ numberOfCoils = 4 <=> personality = 0
    /\ numberOfCoils = 4 => \A i \in 1 .. Len(bus) : bus[i][2] \in {136, 137}
    /\ numberOfCoils = 5 =>
         /\ FiveCoilCycleOrder
         /\ (pc = "loop" /\ step = 0) => Len(bus) = 6 + 3 * cycles
         /\ (pc = "loop" /\ step > 0) => Len(bus) = 6 + 3 * cycles + (step - 1)

C15_WrittenOnce ==
  pc # "boot" => (numberOfCoils' = numberOfCoils /\ personality' = personality)

C15_PersonalityFixesBoards == []C15_Topology /\ [][C15_WrittenOnce]_vars

C15_Witness ==
  /\ pc = "loop"
  /\ step = 0
  /\ cycles = 2
  /\ numberOfCoils = 5
  /\ Len(bus) = 12
  /\ bus[10][2] = 136
  /\ bus[11][2] = 137
  /\ bus[12][2] = 138

(***************************************************************************)
(* C16: a rejected (OutOfRange) setPowerLevels call leaves no state behind *)
(* and aborts only itself: within a control cycle the commands for the     *)
(* remaining boards are still issued, the next cycle still runs, and a     *)
(* later accepted command transmits exactly the bytes it transmits when    *)
(* no rejection came before it.                                            *)
(***************************************************************************)
\* the power-level frame of a command whose heartbeat is no control code
RefPowerFrame(address, coil1Level, coil2Level, hb) ==
  LET body == <<226, address, 11, 135, 40, coil1Level, coil2Level, hb>>
      crc == RefCrcFold(body, 8)
  IN  body \o <<crc % 256, crc \div 256, 227, 225>>

\* commands per control cycle
CommandsPerCycle == IF numberOfCoils = 5 THEN 3 ELSE 2

\* a rejected command changes nothing but the position in the cycle; an
\* accepted one, whatever came before it, appends the frame of its arguments
C16_CommandStep ==
  LoopCommandIssued =>
    /\ UNCHANGED <<pc, personality, numberOfCoils, heartbeat, potValues, cycles>>
    /\ step' = step + 1
    /\ call'.ret \in {0, -1}
    /\ call'.ret = -1 => (bus' = bus /\ call'.tx = << >>)
    /\ (call'.ret = 0 /\ call'.heartbeat \notin ControlCodes) =>
         /\ call'.tx = RefPowerFrame(call'.address, call'.arg1, call'.arg2, call'.heartbeat)
         /\ bus' = Append(bus, call'.tx)

\* every command of every cycle has been issued when the cycle ends, and
\* behind the last command of a cycle the delay, the re-entry and the next
\* sampling are due
C16_CycleCompletes ==
  pc \in {"loop", "loop_entry"} =>
    /\ ncalls = CommandsPerCycle * cycles + (IF step > 0 THEN step - 1 ELSE 0)
    /\ step <= CommandsPerCycle + 1
    /\ (pc = "loop" /\ step = CommandsPerCycle + 1) => ENABLED LoopDelay
    /\ pc = "loop_entry" => ENABLED LoopEnter
    /\ (pc = "loop" /\ step = 0 /\ cycles < MaxLoopCycles) => ENABLED LoopSampleWide

FrameHeartbeat(frame) == frame[Len(frame) - 4]

\* frames i < j on the bus are power-level frames to one board with no
\* power-level frame to that board between them
ConsecutivePowerFrames(i, j) ==
  /\ i < j
  /\ bus[i][5] = 40
  /\ bus[j][5] = 40
  /\ bus[i][2] = bus[j][2]
  /\ \A k \in (i + 1) .. (j - 1) : ~(bus[k][5] = 40 /\ bus[k][2] = bus[i][2])

C17_ConsecutiveHeartbeatsDiffer ==
  \A i \in 1 .. Len(bus) : \A j \in 1 .. Len(bus) :
    ConsecutivePowerFrames(i, j) => FrameHeartbeat(bus[i]) # FrameHeartbeat(bus[j])

(***************************************************************************)
(* C18: the bytes that setPowerLevels and initSingleGenerator write to the *)
(* bus are a function of the arguments only: two calls with equal          *)
(* address, coil values and heartbeat transmit identical byte sequences,   *)
(* for every heartbeat including 0xE0..0xE3, whatever memory held before   *)
(* and whatever calls came earlier.                                        *)
(* Fails: with an escaped heartbeat the checksum covers txBuffer[9], a     *)
(* byte that memcpy brought in from behind the message struct.             *)
(***************************************************************************)
\* the bytes of a frame in front of its checksum: destination, length,
\* source, command and the arguments with their escape marker
ArgumentBytes(frame) == SubSeq(frame, 1, Len(frame) - 4)

C18_BytesFunctionOfArguments ==
  \A i \in 1 .. Len(bus) : \A j \in 1 .. Len(bus) :
    ArgumentBytes(bus[i]) = ArgumentBytes(bus[j]) => bus[i] = bus[j]

(***************************************************************************)
(* C19: during frame construction in initSingleGenerator and               *)
(* setPowerLevels every byte read lies inside an object that has been      *)
(* written: the copy of the message struct into the transmit buffer reads  *)
(* no more bytes than the struct holds (7), and every transmit-buffer byte *)
(* that the checksum computation reads has been assigned from the message  *)
(* struct, the escape marker or the heartbeat before it is read.           *)
(* Fails: memcpy is given txBufferSize (11, 12 or 13) as its count, and    *)
(* with an escaped heartbeat the checksum reads txBuffer[0..9], of which   *)
(* txBuffer[9] was assigned from none of the three.                        *)
(***************************************************************************)
C19_ReadsOnlyWrittenBytes ==
  Sent =>
    /\ call.msgSize = 7
    /\ call.memcpySize <= call.msgSize
    /\ \A i \in 0 .. (call.crcSize - 1) : i \in call.assigned

(***************************************************************************)
(* C20: for both personalities setup runs the initialization sequence to   *)
(* completion and then enters the control loop: no control-loop frame is   *)
(* transmitted before the last initialization frame, every board receives  *)
(* its configuration frame before the first power-level frame addressed to *)
(* it, and once started the control loop never stops: every control cycle  *)
(* is eventually followed by another one.                                  *)
(***************************************************************************)
\* frames of the initialization sequence: two per board
InitFrameCount == 2 * Cardinality(TopologyBoards)

C20_Ordering ==
  /\ pc = "init" => (Len(bus) = step - 1 /\ Len(bus) < InitFrameCount)
  /\ pc \in {"loop_entry", "loop"} => Len(bus) >= InitFrameCount
  /\ \A j \in 1 .. Len(bus) :
       bus[j][5] = 40 =>
         \E i \in 1 .. (j - 1) : bus[i][5] = 38 /\ bus[i][2] = bus[j][2]

\* a frame of the control loop goes behind all frames of initialization
C20_LoopFrameStep ==
  (pc = "loop" /\ bus' # bus) =>
    (Len(bus) >= InitFrameCount /\ bus' = Append(bus, call'.tx))

\* the control cycle with heartbeat h has begun
CycleBegun(h) == pc = "loop" /\ step = 1 /\ heartbeat = h

\* from boot on, and after every control cycle, a cycle with heartbeat 0
\* begins later: the loop is entered, goes around all heartbeats and is
\* re-entered, again and again
C20_InitThenLoopForever ==
  /\ []C20_Ordering
  /\ [][C20_LoopFrameStep]_vars
  /\ []<>CycleBegun(0)

\* the cycle with heartbeat 0 begun for the second time, behind the cycle
\* with heartbeat 255
C20_Witness ==
  /\ pc = "loop"
  /\ step = 1
  /\ heartbeat = 0
  /\ call.fn = "setPowerLevels"
  /\ call.heartbeat = 255
  /\ personality = 1
  /\ Len(bus) = InitFrameCount + 3 * MaxLoggedCycles

====
